---- MODULE Spec2Model ----
(***************************************************************************)
(* A model of the Model Lifecycle Manager of RCD2: the artifact registry   *)
(* (backend/engines/model_registry.py), the retrain orchestrator           *)
(* (backend/engines/retrain_engine.py) and the transport handlers that     *)
(* drive them (backend/api/retrain.py).                                    *)
(*                                                                         *)
(* Numbers: accuracies are in hundredths (0.02 is 2), versions and         *)
(* created_at stamps are naturals ordered like the strings they stand for. *)
(***************************************************************************)
EXTENDS Integers, Sequences, FiniteSets, TLC

VARIABLES
    models,     \* ModelRegistry.models: the dict, as its items in insertion order
    saved,      \* registry.json, the persisted metadata table
    blobs,      \* the artifact files model_<version>.pkl: version -> bytes
    audit,      \* the lines the last call appended to model_registry_audit.jsonl
    last,       \* the last public call: its name, arguments and return value
    sec,        \* the wall clock, in whole seconds (what strftime('%Y%m%d_%H%M%S') shows)
    stamp,      \* trainings made so far: created_at stamps grow with it
    retrain_history,    \* RetrainEngine.retrain_history
    retrain_log,        \* logs/audit/retraining_events.jsonl
    outcome,    \* what the last trigger_retraining call returned, or that it raised
    threads,    \* callers inside ModelRegistry.set_champion: where each one is
    requests,   \* retrain requests being handled: where each one is, and its engine
    adwin,      \* one ADWIN instance: delta, window, total, width, drift_detected, drift_count
    stream,     \* what was fed to it: how many observations, the changes of value, the last return
    drift_detector,     \* the DriftDetector of api/drift.py: its fields
    drift_last, \* the last call made on the DriftDetector and what it returned
    validation  \* the last ModelValidator.validate_model call: what the checks measured, and the result

regVars == <<models, saved, blobs, audit>>
engVars == <<sec, stamp, retrain_history, retrain_log, outcome>>
concVars == <<threads, requests>>
driftVars == <<adwin, stream, drift_detector, drift_last>>
valVars == <<validation>>
vars == <<models, saved, blobs, audit, last, sec, stamp, retrain_history, retrain_log, outcome,
          threads, requests, adwin, stream, drift_detector, drift_last, validation>>

(***************************************************************************)
(* Bounds of the model.                                                    *)
(***************************************************************************)
MaxCreated == 1         \* caller-supplied created_at stamps are 1 .. MaxCreated
MaxSec == 1             \* the clock runs from second 0 to second MaxSec
MaxTrain == 3           \* at most this many trainings in a run

VersionIds == {0, 1}
CreatedAts == 1 .. MaxCreated
ModelObjs == {"mA", "mB"}
None == "None"
\* None where a ModelMetadata is expected (Optional[ModelMetadata]).
NoMetadata == [none |-> TRUE]

(***************************************************************************)
(* Artifacts: pickle.dump / pickle.load and the SHA-256 of the file.       *)
(***************************************************************************)
Pickle(model) == <<"pkl", model>>

Unpickle(bytes) == bytes[2]

\* Bytes an out-of-band writer can leave in an artifact file.
Bytes == {Pickle(m) : m \in ModelObjs}

\* SHA-256 is taken to be collision free on Bytes.
_calculate_checksum(bytes) == <<"sha256", bytes[1], bytes[2]>>

(***************************************************************************)
(* The dict self.models as a sequence of metadata records, one per key,    *)
(* in insertion order (Python dicts keep it; assignment to an existing key *)
(* keeps the key's place).                                                 *)
(***************************************************************************)
Keys(t) == {t[i].version : i \in DOMAIN t}

Has(t, v) == v \in Keys(t)

IndexOf(t, v) == CHOOSE i \in DOMAIN t : t[i].version = v

Get(t, v) == t[IndexOf(t, v)]

Put(t, v, md) == IF Has(t, v) THEN [t EXCEPT ![IndexOf(t, v)] = md] ELSE Append(t, md)

Del(t, v) == SelectSeq(t, LAMBDA r : r.version # v)

Champions(t) == {t[i].version : i \in {j \in DOMAIN t : t[j].champion}}

\* The registry as one value: what a registry operation reads and returns. The
\* audit file is opened for append only, so a call never changes the lines that
\* are already there: the model keeps the lines of the latest call.
Reg == [models |-> models, saved |-> saved, blobs |-> blobs, audit |-> <<>>]

Commit(R) ==
    /\ models' = R.models
    /\ saved' = R.saved
    /\ blobs' = R.blobs
    /\ audit' = R.audit

_save_registry(R) == [R EXCEPT !.saved = R.models]

_log_audit(R, action, version, metadata) ==
    [R EXCEPT !.audit = Append(R.audit,
        [action |-> action, version |-> version, metadata |-> metadata])]

(***************************************************************************)
(* ModelRegistry's public operations, as functions of the registry.        *)
(***************************************************************************)
\* A registry that takes the checksum of the file the version had before, when
\* it had one, instead of the file it has just written.
register_model_stale_checksum(R, model, metadata) ==
    LET version == metadata.version
        bytes == Pickle(model)
        md == [metadata EXCEPT !.checksum =
                  IF version \in DOMAIN R.blobs THEN _calculate_checksum(R.blobs[version])
                  ELSE _calculate_checksum(bytes)]
        R1 == [R EXCEPT !.blobs = [v \in (DOMAIN R.blobs) \cup {version} |->
                                      IF v = version THEN bytes ELSE R.blobs[v]],
                        !.models = Put(R.models, version, md)]
    IN  _log_audit(_save_registry(R1), "register", version, md)

register_model(R, model, metadata) ==
    LET version == metadata.version
        bytes == Pickle(model)
        md == [metadata EXCEPT !.checksum = _calculate_checksum(bytes)]
        R1 == [R EXCEPT !.blobs = [v \in (DOMAIN R.blobs) \cup {version} |->
                                      IF v = version THEN bytes ELSE R.blobs[v]],
                        !.models = Put(R.models, version, md)]
    IN  _log_audit(_save_registry(R1), "register", version, md)

get_latest_model(t) ==
    IF t = <<>> THEN NoMetadata
    ELSE \* sorted(..., key=created_at, reverse=True)[0]: the sort is stable, so
         \* among equal created_at the first inserted comes first
         LET best == CHOOSE i \in DOMAIN t :
                        \A j \in DOMAIN t :
                            \/ t[j].created_at < t[i].created_at
                            \/ (t[j].created_at = t[i].created_at /\ i <= j)
         IN  t[best]

get_champion_model(t) ==
    IF Champions(t) # {}
    THEN \* the first flagged record in iteration order
         t[CHOOSE i \in DOMAIN t : t[i].champion /\ \A j \in 1 .. (i - 1) : ~t[j].champion]
    ELSE get_latest_model(t)

load_model_unverified(R, version) ==
    IF version \notin DOMAIN R.blobs THEN None ELSE Unpickle(R.blobs[version])

\* load_model(version) for an explicit version: the returned model, or None
\* (a missing file and a checksum mismatch are both logged and answered None).
load_model(R, version) ==
    IF version \notin DOMAIN R.blobs THEN None
    ELSE IF Has(R.models, version)
            /\ Get(R.models, version).checksum # _calculate_checksum(R.blobs[version])
         THEN None
         ELSE Unpickle(R.blobs[version])

promote_model(R, version) ==
    IF ~Has(R.models, version) THEN [R |-> R, ok |-> FALSE]
    ELSE LET t == Put(R.models, version, [Get(R.models, version) EXCEPT !.promoted = TRUE])
             R1 == _save_registry([R EXCEPT !.models = t])
         IN  [R |-> _log_audit(R1, "promote", version, Get(t, version)), ok |-> TRUE]

set_champion_keep(R, version) ==
    IF ~Has(R.models, version) THEN [R |-> R, ok |-> FALSE]
    ELSE LET t == [i \in DOMAIN R.models |->
                      IF R.models[i].version = version
                      THEN [R.models[i] EXCEPT !.champion = TRUE] ELSE R.models[i]]
             R1 == _save_registry([R EXCEPT !.models = t])
         IN  [R |-> _log_audit(R1, "set_champion", version, Get(t, version)), ok |-> TRUE]

set_champion(R, version) ==
    IF ~Has(R.models, version) THEN [R |-> R, ok |-> FALSE]
    ELSE LET t == [i \in DOMAIN R.models |->
                      [R.models[i] EXCEPT !.champion = (R.models[i].version = version)]]
             R1 == _save_registry([R EXCEPT !.models = t])
         IN  [R |-> _log_audit(R1, "set_champion", version, Get(t, version)), ok |-> TRUE]

\* rollback_to_version without the audit line of line 255.
rollback_to_version_silent(R, version) ==
    IF ~Has(R.models, version) THEN [R |-> R, ok |-> FALSE]
    ELSE set_champion(R, version)

rollback_to_version(R, version) ==
    IF ~Has(R.models, version) THEN [R |-> R, ok |-> FALSE]
    ELSE LET s == set_champion(R, version)
         IN  IF s.ok
             THEN [R |-> _log_audit(s.R, "rollback", version, Get(s.R.models, version)),
                   ok |-> TRUE]
             ELSE s

delete_model_unprotected(R, version) ==
    IF ~Has(R.models, version) THEN [R |-> R, ok |-> FALSE]
    ELSE LET R1 == [R EXCEPT !.blobs = [v \in (DOMAIN R.blobs) \ {version} |-> R.blobs[v]],
                             !.models = Del(R.models, version)]
         IN  [R |-> _log_audit(_save_registry(R1), "delete", version, NoMetadata), ok |-> TRUE]

\* delete_model without the unlink of lines 281 to 283.
delete_model_keep_artifact(R, version) ==
    IF ~Has(R.models, version) THEN [R |-> R, ok |-> FALSE]
    ELSE IF Get(R.models, version).champion THEN [R |-> R, ok |-> FALSE]
    ELSE LET R1 == [R EXCEPT !.models = Del(R.models, version)]
         IN  [R |-> _log_audit(_save_registry(R1), "delete", version, NoMetadata), ok |-> TRUE]

delete_model(R, version) ==
    IF ~Has(R.models, version) THEN [R |-> R, ok |-> FALSE]
    ELSE IF Get(R.models, version).champion THEN [R |-> R, ok |-> FALSE]
    ELSE LET R1 == [R EXCEPT !.blobs = [v \in (DOMAIN R.blobs) \ {version} |-> R.blobs[v]],
                             !.models = Del(R.models, version)]
         IN  [R |-> _log_audit(_save_registry(R1), "delete", version, NoMetadata), ok |-> TRUE]

(***************************************************************************)
(* The registry used on its own: any caller, any arguments.                *)
(***************************************************************************)
ModelMetadata(version, created_at, accuracy, promoted, champion) ==
    [version |-> version, created_at |-> created_at, accuracy |-> accuracy,
     checksum |-> "", promoted |-> promoted, champion |-> champion]

\* What is kept of a call: its name, its version argument, whether it succeeded,
\* the model it returned (load_model; None otherwise), the model it was given
\* (register_model; None otherwise), the versions flagged champion when it was
\* made, and whether the call before it was a successful set_champion.
Call(op, version, ok, result) ==
    [op |-> op, version |-> version, ok |-> ok, result |-> result, model |-> None,
     before |-> Champions(models),
     follows_set_champion |-> (last.op = "set_champion" /\ last.ok)]

NoOutcome == [status |-> "none"]

Threads == {1, 2}
Requests == {1, 2}
Idle == [pc |-> "idle"]

\* A new ADWIN(delta), delta in thousandths; no stream fed yet; no DriftDetector
\* built yet (the module's global is None).
ADWIN(delta) ==
    [delta |-> delta, window |-> <<>>, total |-> 0, width |-> 0,
     drift_detected |-> FALSE, drift_count |-> 0]

NoStream == [seen |-> 0, changes |-> 0, first |-> 0, value |-> 0, change_at |-> 0,
             returned |-> FALSE, truncated |-> FALSE, drifts |-> 0]

\* No validate_model call made yet.
NoValidation == [none |-> TRUE]

DriftInit ==
    /\ validation = NoValidation
    /\ adwin = ADWIN(2)
    /\ stream = NoStream
    /\ drift_detector = [none |-> TRUE]
    /\ drift_last = [op |-> "init"]

Init ==
    /\ models = <<>>
    /\ saved = <<>>
    /\ blobs = <<>>
    /\ audit = <<>>
    /\ last = [op |-> "init", version |-> None, ok |-> TRUE, result |-> None, model |-> None,
               before |-> {}, follows_set_champion |-> FALSE]
    /\ sec = 0
    /\ stamp = 0
    /\ retrain_history = <<>>
    /\ retrain_log = <<>>
    /\ outcome = NoOutcome
    /\ threads = [t \in Threads |-> Idle]
    /\ requests = [r \in Requests |-> Idle]
    /\ DriftInit

RegisterModel ==
    /\ UNCHANGED <<engVars, concVars, driftVars, valVars>>
    /\ \E v \in VersionIds, c \in CreatedAts, m \in ModelObjs, p \in BOOLEAN, ch \in BOOLEAN :
          /\ Commit(register_model(Reg, m, ModelMetadata(v, c, 80, p, ch)))
          /\ last' = [Call("register", v, TRUE, None) EXCEPT !.model = m]

LoadModel ==
    /\ UNCHANGED <<engVars, concVars, driftVars, valVars>>
    /\ \E v \in VersionIds :
          last' = Call("load", v, load_model(Reg, v) # None, load_model(Reg, v))
    /\ audit' = <<>>
    /\ UNCHANGED <<models, saved, blobs>>

PromoteModel ==
    /\ UNCHANGED <<engVars, concVars, driftVars, valVars>>
    /\ \E v \in VersionIds :
          /\ Commit(promote_model(Reg, v).R)
          /\ last' = Call("promote", v, promote_model(Reg, v).ok, None)

SetChampion ==
    /\ UNCHANGED <<engVars, concVars, driftVars, valVars>>
    /\ \E v \in VersionIds :
          /\ Commit(set_champion(Reg, v).R)
          /\ last' = Call("set_champion", v, set_champion(Reg, v).ok, None)

RollbackToVersion ==
    /\ UNCHANGED <<engVars, concVars, driftVars, valVars>>
    /\ \E v \in VersionIds :
          /\ Commit(rollback_to_version(Reg, v).R)
          /\ last' = Call("rollback", v, rollback_to_version(Reg, v).ok, None)

DeleteModel ==
    /\ UNCHANGED <<engVars, concVars, driftVars, valVars>>
    /\ \E v \in VersionIds :
          /\ Commit(delete_model(Reg, v).R)
          /\ last' = Call("delete", v, delete_model(Reg, v).ok, None)

\* Out of band: something other than the registry rewrites an artifact file.
TamperArtifact ==
    /\ UNCHANGED <<engVars, concVars, driftVars, valVars>>
    /\ \E v \in DOMAIN blobs, b \in Bytes :
          /\ b # blobs[v]
          /\ blobs' = [blobs EXCEPT ![v] = b]
    /\ last' = Call("tamper", None, TRUE, None)
    /\ audit' = <<>>
    /\ UNCHANGED <<models, saved>>

Next ==
    \/ RegisterModel
    \/ LoadModel
    \/ PromoteModel
    \/ SetChampion
    \/ RollbackToVersion
    \/ DeleteModel
    \/ TamperArtifact

Spec == Init /\ [][Next]_vars

(***************************************************************************)
(* The retrain orchestrator: one RetrainEngine and the registry it owns.   *)
(* The Trainer and the four validation checks are outside the model: their *)
(* results are inputs.                                                     *)
(***************************************************************************)
IMPROVEMENT_MARGIN == 2         \* thresholds["improvement_margin"] = 0.02
MIN_TRAINING_SAMPLES == 100     \* config["min_training_samples"]
N_TRAINING_SAMPLES == 500       \* generate_synthetic_data(n_samples=500, ...)

\* What a training can produce: a fitted model and its held-out accuracy.
TrainerOutputs ==
    {[model |-> "mA", accuracy |-> 80], [model |-> "mB", accuracy |-> 81],
     [model |-> "mA", accuracy |-> 83]}

CheckNames == <<"performance", "explainability", "fairness", "stability">>

\* Outcomes of the four checks the runs of this model meet.
CheckVectors ==
    {[performance |-> TRUE, explainability |-> TRUE, fairness |-> TRUE, stability |-> TRUE],
     [performance |-> FALSE, explainability |-> TRUE, fairness |-> TRUE, stability |-> TRUE],
     [performance |-> TRUE, explainability |-> TRUE, fairness |-> FALSE, stability |-> FALSE]}

\* A validator that stops at the first failed check.
validate_model_first_failure(checks) ==
    [passed |-> \A i \in DOMAIN CheckNames : checks[CheckNames[i]],
     failures |-> SubSeq(SelectSeq(CheckNames, LAMBDA c : ~checks[c]), 1, 1),
     numpy_bools |-> TRUE]

\* ModelValidator.validate_model, given what each check found. Each check's
\* "passed" is the result of comparing numpy scalars, a numpy.bool_.
validate_model(checks) ==
    [passed |-> \A i \in DOMAIN CheckNames : checks[CheckNames[i]],
     failures |-> SelectSeq(CheckNames, LAMBDA c : ~checks[c]),
     numpy_bools |-> TRUE]

\* A validator put in the engine's place of ModelValidator, as the repository's
\* test does: it passes everything and answers with built-in booleans.
stub_validate_model(checks) ==
    [passed |-> TRUE, failures |-> <<>>, numpy_bools |-> FALSE]

Validators == {"ModelValidator", "stub"}

RunValidator(validator, checks) ==
    IF validator = "ModelValidator" THEN validate_model(checks)
    ELSE stub_validate_model(checks)

\* json.dumps(event): a numpy.bool_ in the event is not JSON serializable, and
\* json.dumps raises TypeError.
JsonSerializable(event) == ~event.validation.numpy_bools

\* _train_and_register: the version is the clock's second, created_at the
\* instant of the training.
_train_and_register(R, trained, second, instant) ==
    [R |-> register_model(R, trained.model,
                ModelMetadata(second, instant, trained.accuracy, FALSE, FALSE)),
     version |-> second]

\* train_initial_model.
train_initial_model(R, trained, second, instant) ==
    LET t == _train_and_register(R, trained, second, instant)
    IN  [R |-> set_champion(t.R, t.version).R, version |-> t.version]

\* trigger_retraining. The result holds the registry, the history list and the
\* event log as the call leaves them, and what the caller gets: the returned dict
\* (status "returned") or an exception (status "raised").
trigger_retraining(R, history, log, trained, validator, checks, second, instant) ==
    IF N_TRAINING_SAMPLES < MIN_TRAINING_SAMPLES
    THEN [R |-> R, history |-> history, log |-> log, version |-> None,
          outcome |-> [status |-> "returned", success |-> FALSE, promoted |-> FALSE,
                       reason |-> "insufficient_data"]]
    ELSE
    LET t == _train_and_register(R, trained, second, instant)
        new_version == t.version
        new_model == load_model(t.R, new_version)
        current_metadata == get_champion_model(t.R.models)
    IN  IF current_metadata = NoMetadata
        THEN [R |-> set_champion(t.R, new_version).R, history |-> history, log |-> log,
              version |-> new_version,
              outcome |-> [status |-> "returned", success |-> TRUE, promoted |-> TRUE,
                           reason |-> "no_previous_champion"]]
        ELSE
        LET validation_result == RunValidator(validator, checks)
        IN  IF ~validation_result.passed
            THEN [R |-> t.R, history |-> history, log |-> log, version |-> new_version,
                  outcome |-> [status |-> "returned", success |-> FALSE, promoted |-> FALSE,
                               reason |-> "validation_failed",
                               old_version |-> current_metadata.version,
                               validation |-> validation_result]]
            ELSE
            LET new_accuracy == Get(t.R.models, new_version).accuracy
                current_accuracy_actual == current_metadata.accuracy
                improvement == new_accuracy - current_accuracy_actual
                promoted == improvement >= IMPROVEMENT_MARGIN
                R2 == IF promoted THEN set_champion(t.R, new_version).R ELSE t.R
                retrain_event ==
                    [old_version |-> current_metadata.version, new_version |-> new_version,
                     old_accuracy |-> current_accuracy_actual, new_accuracy |-> new_accuracy,
                     improvement |-> improvement, promoted |-> promoted,
                     validation |-> validation_result]
            IN  IF JsonSerializable(retrain_event)
                THEN [R |-> R2, history |-> Append(history, retrain_event),
                      log |-> Append(log, retrain_event), version |-> new_version,
                      outcome |-> [status |-> "returned", success |-> promoted,
                                   promoted |-> promoted, reason |-> "compared",
                                   old_version |-> current_metadata.version,
                                   improvement |-> improvement,
                                   validation |-> validation_result]]
                ELSE [R |-> R2, history |-> Append(history, retrain_event),
                      log |-> log, version |-> new_version,
                      outcome |-> [status |-> "raised", reason |-> "TypeError",
                                   old_version |-> current_metadata.version,
                                   promoted |-> promoted, improvement |-> improvement,
                                   validation |-> validation_result]]

\* What a claim needs of the state a call started from, kept with its outcome.
Started(trained) ==
    [had_champion |-> Champions(models) # {},
     champions |-> Champions(models),
     champion_accuracy |->
        IF Champions(models) # {} THEN get_champion_model(models).accuracy ELSE 0,
     candidate_accuracy |-> trained.accuracy,
     version_taken |-> Has(models, sec)]

TrainInitialModel ==
    /\ stamp < MaxTrain
    /\ UNCHANGED <<concVars, driftVars, valVars>>
    /\ \E trained \in TrainerOutputs :
          LET run == train_initial_model(Reg, trained, sec, stamp + 1)
          IN  /\ Commit(run.R)
              /\ last' = Call("train_initial_model", run.version, TRUE, None)
    /\ stamp' = stamp + 1
    /\ outcome' = NoOutcome
    /\ UNCHANGED <<sec, retrain_history, retrain_log>>

TriggerRetraining ==
    /\ stamp < MaxTrain
    /\ UNCHANGED <<concVars, driftVars, valVars>>
    /\ \E trained \in TrainerOutputs, validator \in Validators, checks \in CheckVectors :
          LET run == trigger_retraining(Reg, retrain_history, retrain_log,
                                        trained, validator, checks, sec, stamp + 1)
          IN  /\ Commit(run.R)
              /\ retrain_history' = run.history
              /\ retrain_log' = run.log
              /\ outcome' = [call |-> run.outcome, version |-> run.version,
                             started |-> Started(trained)]
              /\ last' = Call("trigger_retraining", run.version,
                              run.outcome.status = "returned", None)
    /\ stamp' = stamp + 1
    /\ UNCHANGED sec

\* A second passes.
Tick ==
    /\ sec < MaxSec
    /\ sec' = sec + 1
    /\ UNCHANGED <<models, saved, blobs, audit, last, stamp, retrain_history,
                   retrain_log, outcome, concVars, driftVars, valVars>>

\* engine.model_registry.set_champion(version), by the engine's owner.
EngineSetChampion ==
    /\ \E v \in Keys(models) :
          /\ Commit(set_champion(Reg, v).R)
          /\ last' = Call("set_champion", v, set_champion(Reg, v).ok, None)
    /\ outcome' = NoOutcome
    /\ UNCHANGED <<sec, stamp, retrain_history, retrain_log, concVars, driftVars, valVars>>

RetrainNext ==
    \/ TrainInitialModel
    \/ TriggerRetraining
    \/ Tick
    \/ EngineSetChampion

SpecRetrain == Init /\ [][RetrainNext]_vars

(***************************************************************************)
(* Callers of one ModelRegistry on different threads. The registry takes   *)
(* no lock, so a caller inside set_champion can be overtaken between two   *)
(* of its statements; register_model, promote_model and delete_model are   *)
(* taken whole here.                                                       *)
(***************************************************************************)
ThreadUnchanged == UNCHANGED <<last, engVars, requests, driftVars, valVars>>

\* register_model, with the metadata the orchestrator builds (no flag set).
ThRegisterModel(t) ==
    /\ threads[t].pc = "idle"
    /\ \E v \in VersionIds :
          Commit(register_model(Reg, "mA", ModelMetadata(v, 1, 80, FALSE, FALSE)))
    /\ UNCHANGED threads
    /\ ThreadUnchanged

ThPromoteModel(t) ==
    /\ threads[t].pc = "idle"
    /\ \E v \in Keys(models) : Commit(promote_model(Reg, v).R)
    /\ UNCHANGED threads
    /\ ThreadUnchanged

ThDeleteModel(t) ==
    /\ threads[t].pc = "idle"
    /\ \E v \in Keys(models) : Commit(delete_model(Reg, v).R)
    /\ UNCHANGED threads
    /\ ThreadUnchanged

\* set_champion, lines 187-189: the membership test.
ThSetChampionEnter(t) ==
    /\ threads[t].pc = "idle"
    /\ \E v \in VersionIds :
          threads' = [threads EXCEPT ![t] =
                        IF Has(models, v) THEN [pc |-> "clear", version |-> v] ELSE Idle]
    /\ audit' = <<>>
    /\ UNCHANGED <<models, saved, blobs>>
    /\ ThreadUnchanged

\* lines 192-193: the loop that clears every flag.
ThSetChampionClear(t) ==
    /\ threads[t].pc = "clear"
    /\ models' = [i \in DOMAIN models |-> [models[i] EXCEPT !.champion = FALSE]]
    /\ threads' = [threads EXCEPT ![t].pc = "set"]
    /\ audit' = <<>>
    /\ UNCHANGED <<saved, blobs>>
    /\ ThreadUnchanged

\* line 196: the target's flag is set (KeyError if the record has gone).
ThSetChampionSet(t) ==
    /\ threads[t].pc = "set"
    /\ IF Has(models, threads[t].version)
       THEN /\ models' = Put(models, threads[t].version,
                             [Get(models, threads[t].version) EXCEPT !.champion = TRUE])
            /\ threads' = [threads EXCEPT ![t].pc = "save"]
       ELSE /\ models' = models
            /\ threads' = [threads EXCEPT ![t] = Idle]
    /\ audit' = <<>>
    /\ UNCHANGED <<saved, blobs>>
    /\ ThreadUnchanged

\* line 197: _save_registry.
ThSetChampionSave(t) ==
    /\ threads[t].pc = "save"
    /\ saved' = models
    /\ threads' = [threads EXCEPT ![t].pc = "audit"]
    /\ audit' = <<>>
    /\ UNCHANGED <<models, blobs>>
    /\ ThreadUnchanged

\* line 200: _log_audit (KeyError if the record has gone), then return True.
ThSetChampionAudit(t) ==
    /\ threads[t].pc = "audit"
    /\ audit' = IF Has(models, threads[t].version)
                THEN <<[action |-> "set_champion", version |-> threads[t].version,
                        metadata |-> Get(models, threads[t].version)]>>
                ELSE <<>>
    /\ threads' = [threads EXCEPT ![t] = Idle]
    /\ UNCHANGED <<models, saved, blobs>>
    /\ ThreadUnchanged

ThreadsNext ==
    \E t \in Threads :
        \/ ThRegisterModel(t)
        \/ ThPromoteModel(t)
        \/ ThDeleteModel(t)
        \/ ThSetChampionEnter(t)
        \/ ThSetChampionClear(t)
        \/ ThSetChampionSet(t)
        \/ ThSetChampionSave(t)
        \/ ThSetChampionAudit(t)

SpecThreads == Init /\ [][ThreadsNext]_vars

(***************************************************************************)
(* The application: the retrain endpoints of api/retrain.py, served by one *)
(* event loop. Both endpoints are coroutines (async def) whose bodies hold *)
(* no await, so the loop runs a handler to its end before it takes the     *)
(* next request; a request that arrives meanwhile waits. Each handler      *)
(* builds its own RetrainEngine, whose registry loads registry.json.       *)
(***************************************************************************)
MaxRetrain == 1         \* at most this many retrainings after the initial training
DRIFT_THRESHOLD == 70
ACCURACY_THRESHOLD == 85

Endpoints == {"force_retrain", "auto_retrain_check"}
DriftScores == {50, 85}
\* Optional[float]: the empty set is None.
Accuracies == {{}, {80}, {90}}

\* The state lifespan() leaves on an empty models directory: app.state's
\* registry was loaded before the initial training, by another engine.
InitApp ==
    /\ models = <<>>
    /\ audit = <<>>
    /\ last = [op |-> "init", version |-> None, ok |-> TRUE, result |-> None, model |-> None,
               before |-> {}, follows_set_champion |-> FALSE]
    /\ sec = 0
    /\ stamp = 1
    /\ retrain_history = <<>>
    /\ retrain_log = <<>>
    /\ outcome = NoOutcome
    /\ threads = [t \in Threads |-> Idle]
    /\ requests = [r \in Requests |-> Idle]
    /\ DriftInit
    /\ \E trained \in TrainerOutputs :
          LET run == train_initial_model([models |-> <<>>, saved |-> <<>>, blobs |-> <<>>,
                                          audit |-> <<>>], trained, 0, 1)
          IN  /\ saved = run.R.saved
              /\ blobs = run.R.blobs

\* auto_retrain_check, lines 91-102.
should_retrain(drift_score, current_accuracy) ==
    \/ drift_score >= DRIFT_THRESHOLD
    \/ \E a \in current_accuracy : a < ACCURACY_THRESHOLD

\* A handler has the event loop: it was entered and has not returned.
InHandler(r) == requests[r].pc \in {"running", "responding"}

\* Endpoints written as plain functions would run in the worker thread pool.
LoopBusy_threadpool == FALSE

LoopBusy == \E q \in Requests : InHandler(q)

AppUnchanged == UNCHANGED <<models, last, retrain_history, outcome, threads, driftVars, valVars>>

\* A client sends POST /force_retrain or POST /auto_retrain_check.
Arrive(r) ==
    /\ requests[r].pc = "idle"
    /\ \E e \in Endpoints :
          requests' = [requests EXCEPT ![r] = [pc |-> "pending", endpoint |-> e]]
    /\ UNCHANGED <<saved, blobs, audit, sec, stamp, retrain_log>>
    /\ AppUnchanged

\* The loop enters the handler with the request's drift_score and
\* current_accuracy: up to engine = RetrainEngine(), or to the "No thresholds
\* exceeded" answer of auto_retrain_check.
Dispatch(r) ==
    /\ requests[r].pc = "pending"
    /\ ~LoopBusy
    /\ \E drift_score \in DriftScores, current_accuracy \in Accuracies :
          requests' = [requests EXCEPT ![r] =
              IF /\ requests[r].endpoint = "auto_retrain_check"
                 /\ ~should_retrain(drift_score, current_accuracy)
              THEN Idle
              ELSE [pc |-> "running", endpoint |-> requests[r].endpoint,
                    engine_models |-> saved]]
    /\ UNCHANGED <<saved, blobs, audit, sec, stamp, retrain_log>>
    /\ AppUnchanged

\* engine.trigger_retraining(...), with the engine's own ModelValidator.
RunRetraining(r) ==
    /\ requests[r].pc = "running"
    /\ stamp < 1 + MaxRetrain
    /\ \E trained \in TrainerOutputs, checks \in CheckVectors :
          LET run == trigger_retraining(
                         [models |-> requests[r].engine_models, saved |-> saved,
                          blobs |-> blobs, audit |-> <<>>],
                         <<>>, retrain_log, trained, "ModelValidator", checks,
                         sec, stamp + 1)
          IN  /\ saved' = run.R.saved
              /\ blobs' = run.R.blobs
              /\ audit' = run.R.audit
              /\ retrain_log' = run.log
              /\ requests' = [requests EXCEPT ![r] =
                                [pc |-> "responding", endpoint |-> requests[r].endpoint,
                                 http |-> IF run.outcome.status = "returned"
                                          THEN 200 ELSE 500]]
    /\ stamp' = stamp + 1
    /\ UNCHANGED sec
    /\ AppUnchanged

\* The handler returns (or raises HTTPException) and the loop is free again.
Respond(r) ==
    /\ requests[r].pc = "responding"
    /\ requests' = [requests EXCEPT ![r] = Idle]
    /\ UNCHANGED <<saved, blobs, audit, sec, stamp, retrain_log>>
    /\ AppUnchanged

\* POST /predict, lines 50-90 of api/predict.py: the handler reads the registry
\* held in app.state. An HTTPException(503) raised inside the try block is caught
\* by its "except Exception" and leaves as a 500.
predict(R) ==
    LET champion_metadata == get_champion_model(R.models)
    IN  IF champion_metadata = NoMetadata
        THEN [http |-> 500, detail |-> "No model available", model_version |-> None,
              model |-> None]
        ELSE LET model == load_model(R, champion_metadata.version)
             IN  IF model = None
                 THEN [http |-> 500, detail |-> "Failed to load model",
                       model_version |-> None, model |-> None]
                 ELSE [http |-> 200, detail |-> "", model_version |-> champion_metadata.version,
                       model |-> model]

Predict ==
    /\ ~LoopBusy
    /\ last' = Call("predict", predict(Reg).model_version, predict(Reg).http = 200,
                    predict(Reg).model)
    /\ audit' = <<>>
    /\ UNCHANGED <<models, saved, blobs, engVars, concVars, driftVars, valVars>>

\* POST /model/{version}/set_champion of api/model.py: the handler calls
\* set_champion of the registry held in app.state, for a version a client knows
\* of, and answers 404 when that registry does not have it.
SetChampionEndpoint ==
    /\ ~LoopBusy
    /\ \E v \in Keys(models) \cup Keys(saved) :
          /\ Commit(set_champion(Reg, v).R)
          /\ last' = Call("set_champion", v, set_champion(Reg, v).ok, None)
    /\ UNCHANGED <<engVars, concVars, driftVars, valVars>>

\* The server process is started again on the directory it left: lifespan()
\* loads registry.json into app.state's registry and, a model being there,
\* trains nothing. Requests of the old process are gone.
Restart ==
    /\ models' = saved
    /\ requests' = [r \in Requests |-> Idle]
    /\ last' = Call("lifespan", None, TRUE, None)
    /\ audit' = <<>>
    /\ UNCHANGED <<saved, blobs, engVars, threads, driftVars, valVars>>

AppNext ==
    \/ \E r \in Requests : Arrive(r)
    \/ \E r \in Requests : Dispatch(r)
    \/ \E r \in Requests : RunRetraining(r)
    \/ \E r \in Requests : Respond(r)
    \/ Predict
    \/ SetChampionEndpoint
    \/ Restart
    \/ Tick

SpecApp == InitApp /\ [][AppNext]_vars

(***************************************************************************)
(* ADWIN (backend/engines/adwin.py). Observations are 0 or 1 ("0 for       *)
(* correct, 1 for error") or 10 (a feature value, as the drift engine      *)
(* feeds), so sums are integers and the test                               *)
(*     |mean0 - mean1| > sqrt((1 / (2m)) * ln(4 / delta)),                 *)
(* with m = 1 / (1/n0 + 1/n1), is the integer comparison                   *)
(*     2 * (s0*n1 - s1*n0)^2 > (n0 + n1) * n0 * n1 * ln(4 / delta).        *)
(* delta is kept in thousandths, ln(4 / delta) in thousandths rounded      *)
(* down. self.variance is read by get_variance only and is left out.       *)
(***************************************************************************)
MaxObs == 60            \* at most this many observations between two resets

Values == {0, 1, 10}
Deltas == {2, 10}       \* ADWIN(delta=0.002), the default, and ADWIN(delta=0.01)
MIN_SUBWINDOW == 5      \* "if n0 < 5 or n1 < 5: continue"

\* ln(4 / delta) = 20, a confidence far stricter than either delta asks for.
LnMilli_strict(delta) == 20000

\* floor(1000 * ln(4 / delta)): ln 2000 = 7.6009..., ln 400 = 5.9914...
LnMilli(delta) == IF delta = 2 THEN 7600 ELSE 5991

\* The sum of the first k observations of w.
RECURSIVE SumTo(_, _)
SumTo(w, k) == IF k = 0 THEN 0 ELSE w[k] + SumTo(w, k - 1)

SumSeq(w) == SumTo(w, Len(w))

\* A test without the bound: any two subwindows differ enough.
Significant_no_bound(s0, n0, s1, n1, delta) == TRUE

\* abs(mean0 - mean1) > epsilon, for sums s0, s1 of n0, n1 observations.
Significant(s0, n0, s1, n1, delta) ==
    LET d == s0 * n1 - s1 * n0
        K == (n0 + n1) * n0 * n1
    IN  2 * d * d > (LnMilli(delta) * K) \div 1000

\* A scan that tries every split point, however few observations on a side.
TooFew_never(n0, n1) == FALSE

\* "if n0 < 5 or n1 < 5: continue".
TooFew(n0, n1) == n0 < MIN_SUBWINDOW \/ n1 < MIN_SUBWINDOW

\* The split points of w from i on that pass the two tests of the loop body,
\* s0 the sum of the first i - 1 observations and sum the sum of all.
RECURSIVE QualifyingFrom(_, _, _, _, _)
QualifyingFrom(w, sum, i, s0, delta) ==
    IF i >= Len(w) THEN {}
    ELSE (IF /\ ~TooFew(i, Len(w) - i)
             /\ Significant(s0 + w[i], i, sum - (s0 + w[i]), Len(w) - i, delta)
          THEN {i} ELSE {})
         \cup QualifyingFrom(w, sum, i + 1, s0 + w[i], delta)

Qualifying(w, delta) == QualifyingFrom(w, SumSeq(w), 1, 0, delta)

\* A scan that cuts at the last split point that qualifies.
LastCut(w, sum, i, s0, delta) ==
    IF Qualifying(w, delta) = {} THEN 0
    ELSE CHOOSE c \in Qualifying(w, delta) : \A d \in Qualifying(w, delta) : d <= c

\* The loop of _detect_change from split point i on, s0 the sum of the first
\* i - 1 observations: the first split point that qualifies, or 0.
RECURSIVE FirstCut(_, _, _, _, _)
FirstCut(w, sum, i, s0, delta) ==
    IF i >= Len(w) THEN 0
    ELSE LET n0 == i
             n1 == Len(w) - i
             t0 == s0 + w[i]
         IN  IF /\ ~TooFew(n0, n1)
                /\ Significant(t0, n0, sum - t0, n1, delta)
             THEN i
             ELSE FirstCut(w, sum, i + 1, t0, delta)

\* _detect_change: the ADWIN it leaves and what it returns.
_detect_change(A) ==
    LET i == FirstCut(A.window, SumSeq(A.window), 1, 0, A.delta)
    IN  IF i = 0 THEN [A |-> A, found |-> FALSE]
        ELSE [A |-> [A EXCEPT !.window = SubSeq(A.window, i + 1, Len(A.window)),
                              !.total = A.total - SumTo(A.window, i),
                              !.width = A.width - i],
              found |-> TRUE]

\* add_element: the ADWIN it leaves and what it returns.
add_element(A, value) ==
    LET A1 == [A EXCEPT !.window = Append(A.window, value),
                        !.width = A.width + 1,
                        !.total = IF A.width + 1 = 1 THEN value ELSE A.total + value,
                        !.drift_detected = FALSE]
        c == _detect_change(A1)
    IN  IF A1.width > 1 /\ c.found
        THEN [A |-> [c.A EXCEPT !.drift_detected = TRUE,
                                !.drift_count = A1.drift_count + 1],
              returned |-> TRUE]
        ELSE [A |-> A1, returned |-> FALSE]

\* A reset that clears the drift counter too.
adwin_reset_all(A) ==
    [A EXCEPT !.window = <<>>, !.total = 0, !.width = 0, !.drift_detected = FALSE,
              !.drift_count = 0]

\* reset: drift_count is not among the fields it clears.
adwin_reset(A) ==
    [A EXCEPT !.window = <<>>, !.total = 0, !.width = 0, !.drift_detected = FALSE]

OtherUnchanged ==
    UNCHANGED <<models, saved, blobs, audit, last, engVars, concVars, valVars>>

\* adwin = ADWIN(delta), for a stream to come.
InitAdwin ==
    /\ models = <<>>
    /\ saved = <<>>
    /\ blobs = <<>>
    /\ audit = <<>>
    /\ last = [op |-> "init", version |-> None, ok |-> TRUE, result |-> None, model |-> None,
               before |-> {}, follows_set_champion |-> FALSE]
    /\ sec = 0
    /\ stamp = 0
    /\ retrain_history = <<>>
    /\ retrain_log = <<>>
    /\ outcome = NoOutcome
    /\ threads = [t \in Threads |-> Idle]
    /\ requests = [r \in Requests |-> Idle]
    /\ validation = NoValidation
    /\ adwin \in {ADWIN(delta) : delta \in Deltas}
    /\ stream = NoStream
    /\ drift_detector = [none |-> TRUE]
    /\ drift_last = [op |-> "init"]

\* adwin.add_element(value). The streams fed are those with at most one change
\* of value: c, c, ..., c, c', c', ...
AddElement ==
    /\ stream.seen < MaxObs
    /\ \E value \in Values :
          LET call == add_element(adwin, value)
              changed == stream.seen > 0 /\ value # stream.value
          IN  /\ changed => stream.changes = 0
              /\ adwin' = call.A
              /\ stream' = [seen |-> stream.seen + 1,
                            changes |-> IF changed THEN stream.changes + 1
                                        ELSE stream.changes,
                            first |-> IF stream.seen = 0 THEN value ELSE stream.first,
                            value |-> value,
                            change_at |-> IF changed THEN stream.seen ELSE stream.change_at,
                            returned |-> call.returned,
                            truncated |-> stream.truncated \/ call.A.width < adwin.width + 1,
                            drifts |-> IF call.returned THEN stream.drifts + 1
                                       ELSE stream.drifts]
    /\ UNCHANGED <<drift_detector, drift_last>>
    /\ OtherUnchanged

\* adwin.reset(), and the stream starts again.
AdwinReset ==
    /\ stream.seen > 0
    /\ adwin' = adwin_reset(adwin)
    /\ stream' = [NoStream EXCEPT !.changes = stream.changes, !.drifts = stream.drifts]
    /\ UNCHANGED <<drift_detector, drift_last>>
    /\ OtherUnchanged

AdwinNext ==
    \/ AddElement
    \/ AdwinReset

SpecAdwin == InitAdwin /\ [][AdwinNext]_vars

(***************************************************************************)
(* The drift engine (backend/engines/drift_detector.py). The divergence    *)
(* tests (PSI, KS, KL) are outside the model: what they return is an       *)
(* input of detect_drift. PSI, the KS statistic and the KL divergence are  *)
(* in units of 0.04, so that 0.2 is 5 and 1.0 is 25 and every per-signal   *)
(* score is a whole number of points; the overall score, a mean, is kept   *)
(* as the fraction num / den.                                              *)
(*                                                                         *)
(* The window's capacity and the minimum sample count, 100 and 30 in the   *)
(* source, are scaled down: window_size and MIN_SAMPLES are bounds of this *)
(* model. Each stored sample carries the number of the add_sample call     *)
(* that brought it (id) and the label and the prediction that came with    *)
(* it, which the program does not keep with the features.                  *)
(***************************************************************************)
N_FEATURES == 1         \* n_features of the detector (3 by default in the source)
window_size == 2        \* self.window_size (100 in the source)
MIN_SAMPLES == 2        \* "if len(self.current_features) < 30" (30 in the source)
MaxSamples == 3         \* at most this many add_sample calls
MaxDetect == 1          \* at most this many detect_drift calls
MaxLimit == 1           \* get_drift_history(limit) with limit from 0 to this

\* Feature vectors by length: n_features values, one more, two more.
Ones(n) == [i \in 1 .. n |-> 1]

FeatureVectors == {Ones(n) : n \in N_FEATURES .. (N_FEATURES + 2)}

\* label, prediction (Optional[float]: the empty set is None) and error.
Observed ==
    {[label |-> {}, prediction |-> {}, error |-> 0],
     [label |-> {1}, prediction |-> {1}, error |-> 0]}

\* set_reference arguments: a matrix of n_features columns, with or without
\* labels and predictions.
References ==
    {[labels |-> FALSE, predictions |-> FALSE], [labels |-> TRUE, predictions |-> TRUE]}

\* What the divergence tests return in a detect_drift call: for a feature, psi,
\* ks_stat, ks_drift and kl_div; psi and ks_stat of the predictions; psi of the
\* labels.
FeatureSignals ==
    {[psi |-> 0, ks_stat |-> 0, ks_drift |-> FALSE, kl_div |-> 0],
     [psi |-> 2, ks_stat |-> 5, ks_drift |-> FALSE, kl_div |-> 3],
     [psi |-> 100, ks_stat |-> 25, ks_drift |-> TRUE, kl_div |-> 50]}

\* PSI of the predictions and of the labels: both small, or one or both at 1.0.
StreamSignals ==
    {[psi_pred |-> 0, psi_label |-> 0], [psi_pred |-> 25, psi_label |-> 0],
     [psi_pred |-> 0, psi_label |-> 25], [psi_pred |-> 25, psi_label |-> 25]}

Signals ==
    {[feature |-> f, psi_pred |-> s.psi_pred, ks_stat_pred |-> 0, psi_label |-> s.psi_label] :
        f \in FeatureSignals, s \in StreamSignals}

DriftDetector(n_features) ==
    [n_features |-> n_features,
     reference |-> [none |-> TRUE],
     current_features |-> <<>>,
     current_labels |-> <<>>,
     current_predictions |-> <<>>,
     adwin_detectors |-> [i \in 1 .. (n_features + 1) |-> ADWIN(2)],
     drift_history |-> <<>>]

\* set_reference.
set_reference(D, ref) == [D EXCEPT !.reference = ref]

\* The loop "for i, feature_val in enumerate(features)" from index i on (1-based
\* here): the detectors fed, and whether adwin_detectors[i] raised IndexError.
RECURSIVE FeedDetectors(_, _, _)
FeedDetectors(detectors, features, i) ==
    IF i > Len(features) THEN [detectors |-> detectors, raised |-> FALSE]
    ELSE IF i > Len(detectors) THEN [detectors |-> detectors, raised |-> TRUE]
    ELSE FeedDetectors([detectors EXCEPT ![i] = add_element(detectors[i], features[i]).A],
                       features, i + 1)

\* add_sample, for the id-th call: the detector it leaves and whether it raised.
add_sample(D, id, features, label, prediction, error) ==
    LET D1 == [D EXCEPT
                 !.current_features = Append(D.current_features,
                                             [id |-> id, features |-> features,
                                              label |-> label, prediction |-> prediction]),
                 !.current_labels =
                     IF label # {} THEN Append(D.current_labels, [id |-> id, label |-> label])
                     ELSE D.current_labels,
                 !.current_predictions =
                     IF prediction # {}
                     THEN Append(D.current_predictions, [id |-> id, prediction |-> prediction])
                     ELSE D.current_predictions]
        fed == FeedDetectors(D1.adwin_detectors, features, 1)
        D2 == [D1 EXCEPT !.adwin_detectors = fed.detectors]
        D3 == [D2 EXCEPT !.adwin_detectors[Len(D2.adwin_detectors)] =
                            add_element(D2.adwin_detectors[Len(D2.adwin_detectors)], error).A]
        D4 == IF Len(D3.current_features) > window_size
              THEN [D3 EXCEPT
                      !.current_features = Tail(D3.current_features),
                      !.current_labels = IF D3.current_labels # <<>>
                                         THEN Tail(D3.current_labels) ELSE <<>>,
                      !.current_predictions = IF D3.current_predictions # <<>>
                                              THEN Tail(D3.current_predictions) ELSE <<>>]
              ELSE D3
    IN  IF fed.raised THEN [D |-> D2, raised |-> TRUE]
        ELSE [D |-> D4, raised |-> FALSE]

\* reset of the DriftDetector.
detector_reset(D) ==
    [D EXCEPT !.current_features = <<>>, !.current_labels = <<>>,
              !.current_predictions = <<>>,
              !.adwin_detectors = [i \in DOMAIN D.adwin_detectors |->
                                      adwin_reset(D.adwin_detectors[i])]]

\* The overall score without the clamp.
Unclamped(sum, n) == IF n = 0 THEN [num |-> 0, den |-> 1] ELSE [num |-> sum, den |-> n]

\* float(np.mean(drift_scores)) if drift_scores else 0.0, then
\* min(100.0, max(0.0, .)): the mean of n scores of sum sum, clamped.
Clamp(sum, n) ==
    IF n = 0 THEN [num |-> 0, den |-> 1]
    ELSE IF sum < 0 THEN [num |-> 0, den |-> 1]
    ELSE IF sum > 100 * n THEN [num |-> 100, den |-> 1]
    ELSE [num |-> sum, den |-> n]

_classify_severity(score) ==
    IF score.num >= 70 * score.den THEN "high"
    ELSE IF score.num >= 40 * score.den THEN "moderate"
    ELSE IF score.num >= 20 * score.den THEN "low"
    ELSE "none"

_classify_drift_type(has_concept, psi_label, has_prediction, psi_pred, affected_features) ==
    IF affected_features # <<>>
    THEN IF has_concept /\ psi_label > 5 THEN "concept_drift"
         ELSE IF has_prediction /\ psi_pred > 5 THEN "prediction_drift"
         ELSE "data_drift"
    ELSE "none"

Min(a, b) == IF a < b THEN a ELSE b

\* np.array(self.current_features)[:, i] for i < n_features works when the
\* stored vectors have one length, n_features or more.
WindowIsMatrix(D) ==
    \E n \in D.n_features .. (D.n_features + 2) :
        \A k \in DOMAIN D.current_features : Len(D.current_features[k].features) = n

\* Sum of the scores of a sequence of per-signal scores.
RECURSIVE SumScores(_, _)
SumScores(scores, k) == IF k = 0 THEN 0 ELSE scores[k] + SumScores(scores, k - 1)

\* The two tests with the sample count looked at first.
Precondition_count_first(D) ==
    IF Len(D.current_features) < MIN_SAMPLES THEN "insufficient_data"
    ELSE IF D.reference = [none |-> TRUE] THEN "no_reference"
    ELSE "met"

\* The two tests detect_drift starts with, lines 135 and 144.
Precondition(D) ==
    IF D.reference = [none |-> TRUE] THEN "no_reference"
    ELSE IF Len(D.current_features) < MIN_SAMPLES THEN "insufficient_data"
    ELSE "met"

\* detect_drift, the divergence tests returning sig: the detector it leaves and
\* the report it returns, or that it raised. The report's details are kept by
\* their key: "error", "current_samples" or "feature_drift"; of a computed
\* report's details, the drift_score of each feature and the psi and drift_score
\* of the prediction and the concept entry (a set: empty when the key is absent).
detect_drift(D, sig) ==
    IF Precondition(D) = "no_reference"
    THEN [D |-> D, raised |-> FALSE,
          report |-> [drift_score |-> [num |-> 0, den |-> 1], drift_type |-> "none",
                      severity |-> "none", affected_features |-> <<>>,
                      details |-> "error"]]
    ELSE IF Precondition(D) = "insufficient_data"
    THEN [D |-> D, raised |-> FALSE,
          report |-> [drift_score |-> [num |-> 0, den |-> 1], drift_type |-> "none",
                      severity |-> "insufficient_data", affected_features |-> <<>>,
                      details |-> "current_samples"]]
    ELSE IF ~WindowIsMatrix(D)
    THEN [D |-> D, raised |-> TRUE, report |-> [none |-> TRUE]]
    ELSE
    LET f == sig.feature
        feature_score(i) ==
            5 * f.psi + f.ks_stat + Min(f.kl_div, 25)
              + (IF D.adwin_detectors[i].drift_detected THEN 25 ELSE 0)
        is_affected(i) ==
            f.psi > 5 \/ f.ks_drift \/ D.adwin_detectors[i].drift_detected
        affected_features ==
            SelectSeq([i \in 1 .. D.n_features |-> i], is_affected)
        feature_scores ==
            [k \in DOMAIN affected_features |-> feature_score(affected_features[k])]
        has_prediction == D.reference.predictions /\ D.current_predictions # <<>>
        has_concept == D.reference.labels /\ D.current_labels # <<>>
        drift_scores ==
            feature_scores
              \o (IF has_prediction THEN <<10 * sig.psi_pred + 2 * sig.ks_stat_pred>>
                  ELSE <<>>)
              \o (IF has_concept THEN <<20 * sig.psi_label>> ELSE <<>>)
        overall_drift_score ==
            Clamp(SumScores(drift_scores, Len(drift_scores)), Len(drift_scores))
        result ==
            [drift_score |-> overall_drift_score,
             drift_type |-> _classify_drift_type(has_concept, sig.psi_label, has_prediction,
                                                 sig.psi_pred, affected_features),
             severity |-> _classify_severity(overall_drift_score),
             affected_features |-> affected_features,
             details |-> "feature_drift",
             feature_drift |-> [i \in 1 .. D.n_features |-> feature_score(i)],
             prediction_drift |->
                 IF has_prediction
                 THEN {[psi |-> sig.psi_pred,
                        drift_score |-> 10 * sig.psi_pred + 2 * sig.ks_stat_pred]}
                 ELSE {},
             concept_drift |->
                 IF has_concept
                 THEN {[psi |-> sig.psi_label, drift_score |-> 20 * sig.psi_label]}
                 ELSE {}]
    IN  [D |-> [D EXCEPT !.drift_history = Append(D.drift_history, result)],
         raised |-> FALSE, report |-> result]

\* The slice seq[-limit:] of a Python list: the last limit elements when limit is
\* positive (all of them when there are fewer); the whole list when limit is 0,
\* since -0 is 0 and seq[0:] is the list; the list without its first -limit
\* elements when limit is negative.
SliceFromMinus(seq, limit) ==
    IF limit > 0
    THEN SubSeq(seq, (IF Len(seq) > limit THEN Len(seq) - limit + 1 ELSE 1), Len(seq))
    ELSE SubSeq(seq, 1 - limit, Len(seq))

get_drift_history(D, limit) == SliceFromMinus(D.drift_history, limit)

\* The limit query parameter of GET /drift/history: any int.
Limits == 0 .. MaxLimit

\* What is kept of the calls: the last add_sample or detect_drift call, what it
\* returned, whether a reference was set and how many samples the window held
\* when it was made; how many add_sample calls there were, how many of them
\* before the last reset, and how many detect_drift calls returned.
DriftCall(op, raised, report, adds, detects) ==
    [op |-> op, raised |-> raised, report |-> report, adds |-> adds, detects |-> detects,
     limit |-> 0, history |-> <<>>,
     since |-> drift_last.since,
     had_reference |-> drift_detector.reference # [none |-> TRUE],
     samples |-> Len(drift_detector.current_features)]

InitDrift ==
    /\ models = <<>>
    /\ saved = <<>>
    /\ blobs = <<>>
    /\ audit = <<>>
    /\ last = [op |-> "init", version |-> None, ok |-> TRUE, result |-> None, model |-> None,
               before |-> {}, follows_set_champion |-> FALSE]
    /\ sec = 0
    /\ stamp = 0
    /\ retrain_history = <<>>
    /\ retrain_log = <<>>
    /\ outcome = NoOutcome
    /\ threads = [t \in Threads |-> Idle]
    /\ requests = [r \in Requests |-> Idle]
    /\ validation = NoValidation
    /\ adwin = ADWIN(2)
    /\ stream = NoStream
    /\ drift_detector = DriftDetector(N_FEATURES)
    /\ drift_last = [op |-> "init", raised |-> FALSE, report |-> [none |-> TRUE],
                     adds |-> 0, detects |-> 0, limit |-> 0, history |-> <<>>, since |-> 0,
                     had_reference |-> FALSE, samples |-> 0]

SetReference ==
    /\ \E ref \in References : drift_detector' = set_reference(drift_detector, ref)
    /\ UNCHANGED <<adwin, stream, drift_last>>
    /\ OtherUnchanged

AddSample ==
    /\ drift_last.adds < MaxSamples
    /\ \E features \in FeatureVectors, o \in Observed :
          LET call == add_sample(drift_detector, drift_last.adds + 1, features,
                                 o.label, o.prediction, o.error)
          IN  /\ drift_detector' = call.D
              /\ drift_last' = DriftCall("add_sample", call.raised, [none |-> TRUE],
                                         drift_last.adds + 1, drift_last.detects)
    /\ UNCHANGED <<adwin, stream>>
    /\ OtherUnchanged

DetectDrift ==
    /\ drift_last.detects < MaxDetect
    /\ \E sig \in Signals :
          LET call == detect_drift(drift_detector, sig)
          IN  /\ drift_detector' = call.D
              /\ drift_last' = DriftCall("detect_drift", call.raised, call.report,
                                         drift_last.adds,
                                         IF call.raised THEN drift_last.detects
                                         ELSE drift_last.detects + 1)
    /\ UNCHANGED <<adwin, stream>>
    /\ OtherUnchanged

DetectorReset ==
    /\ drift_detector' = detector_reset(drift_detector)
    /\ drift_last' = [drift_last EXCEPT !.since = drift_last.adds]
    /\ UNCHANGED <<adwin, stream>>
    /\ OtherUnchanged

GetDriftHistory ==
    /\ \E limit \in Limits :
          drift_last' = [DriftCall("get_drift_history", FALSE, [none |-> TRUE],
                                   drift_last.adds, drift_last.detects)
                           EXCEPT !.limit = limit,
                                  !.history = get_drift_history(drift_detector, limit)]
    /\ UNCHANGED <<adwin, stream, drift_detector>>
    /\ OtherUnchanged

DriftNext ==
    \/ SetReference
    \/ AddSample
    \/ DetectDrift
    \/ DetectorReset

SpecDrift == InitDrift /\ [][DriftNext]_vars

\* The engine with its history queried: GET /drift/history between the calls.
HistoryNext ==
    \/ SetReference
    \/ AddSample
    \/ DetectDrift
    \/ GetDriftHistory

SpecHistory == InitDrift /\ [][HistoryNext]_vars

(***************************************************************************)
(* The drift endpoints of api/drift.py on the one module-level detector:   *)
(* requests arrive at any time, and a handler runs when the event loop     *)
(* gives it the turn. add_sample is taken statement by statement.          *)
(***************************************************************************)
\* The requests of this part: a feature vector of n_features values or one long
\* enough to make add_sample raise; divergence tests that find nothing or find
\* the feature drifted.
IngestVectors == {Ones(N_FEATURES), Ones(N_FEATURES + 2)}

QuerySignals ==
    {sig \in Signals : sig.psi_pred = 0 /\ sig.psi_label = 0 /\ sig.feature.psi # 2}

\* Lines 101 to 105 of add_sample: the appends.
append_sample(D, id, features, label, prediction) ==
    [D EXCEPT
       !.current_features = Append(D.current_features,
                                   [id |-> id, features |-> features,
                                    label |-> label, prediction |-> prediction]),
       !.current_labels =
           IF label # {} THEN Append(D.current_labels, [id |-> id, label |-> label])
           ELSE D.current_labels,
       !.current_predictions =
           IF prediction # {}
           THEN Append(D.current_predictions, [id |-> id, prediction |-> prediction])
           ELSE D.current_predictions]

\* Lines 108 and 109: the feature detectors are fed.
feed_features(D, features) ==
    LET fed == FeedDetectors(D.adwin_detectors, features, 1)
    IN  [D |-> [D EXCEPT !.adwin_detectors = fed.detectors], raised |-> fed.raised]

\* Line 112: the error goes to the last detector.
feed_error(D, error) ==
    [D EXCEPT !.adwin_detectors[Len(D.adwin_detectors)] =
                 add_element(D.adwin_detectors[Len(D.adwin_detectors)], error).A]

\* Lines 115 to 120: the oldest sample leaves a window that is too long.
trim_window(D) ==
    IF Len(D.current_features) > window_size
    THEN [D EXCEPT
            !.current_features = Tail(D.current_features),
            !.current_labels = IF D.current_labels # <<>>
                               THEN Tail(D.current_labels) ELSE <<>>,
            !.current_predictions = IF D.current_predictions # <<>>
                                    THEN Tail(D.current_predictions) ELSE <<>>]
    ELSE D

\* A request is inside add_sample: entered and not returned.
InAddSample(r) == requests[r].pc \in {"appended", "fed", "error_fed"}

\* The drift endpoints written as plain functions would run in the worker
\* thread pool, each whenever its thread is scheduled.
DriftLoopBusy_threadpool == FALSE

\* The handlers are coroutines without an await: the loop runs one to its end
\* before it takes another.
DriftLoopBusy == \E q \in Requests : InAddSample(q)

IngestUnchanged ==
    UNCHANGED <<models, saved, blobs, audit, last, engVars, threads, adwin, stream, valVars>>

\* A client sends a request to one of the drift endpoints.
ArriveDrift(r) ==
    /\ requests[r].pc = "idle"
    /\ requests' = [requests EXCEPT ![r] = [pc |-> "pending"]]
    /\ UNCHANGED <<drift_detector, drift_last>>
    /\ IngestUnchanged

\* POST /ingest: the loop enters ingest_data, which calls add_sample: the appends.
IngestAppend(r) ==
    /\ requests[r].pc = "pending"
    /\ ~DriftLoopBusy
    /\ drift_last.adds < MaxSamples
    /\ \E features \in IngestVectors, o \in Observed :
          /\ drift_detector' = append_sample(drift_detector, drift_last.adds + 1, features,
                                             o.label, o.prediction)
          /\ requests' = [requests EXCEPT ![r] =
                            [pc |-> "appended", id |-> drift_last.adds + 1, features |-> features,
                             observed |-> o, before |-> drift_detector]]
    /\ drift_last' = [drift_last EXCEPT !.adds = drift_last.adds + 1]
    /\ IngestUnchanged

\* The loop over the features; an IndexError leaves add_sample and the handler,
\* which answers 500.
IngestFeed(r) ==
    /\ requests[r].pc = "appended"
    /\ LET fed == feed_features(drift_detector, requests[r].features)
       IN  /\ drift_detector' = fed.D
           /\ IF fed.raised
              THEN /\ requests' = [requests EXCEPT ![r] = Idle]
                   /\ drift_last' = DriftCall("add_sample", TRUE, [none |-> TRUE],
                                              drift_last.adds, drift_last.detects)
              ELSE /\ requests' = [requests EXCEPT ![r].pc = "fed"]
                   /\ UNCHANGED drift_last
    /\ IngestUnchanged

IngestFeedError(r) ==
    /\ requests[r].pc = "fed"
    /\ drift_detector' = feed_error(drift_detector, requests[r].observed.error)
    /\ requests' = [requests EXCEPT ![r].pc = "error_fed"]
    /\ UNCHANGED drift_last
    /\ IngestUnchanged

\* The trim, the return of add_sample and the answer of the handler.
IngestTrim(r) ==
    /\ requests[r].pc = "error_fed"
    /\ drift_detector' = trim_window(drift_detector)
    /\ requests' = [requests EXCEPT ![r] = Idle]
    /\ drift_last' = DriftCall("add_sample", FALSE, [none |-> TRUE],
                               drift_last.adds, drift_last.detects)
    /\ IngestUnchanged

\* GET /drift, get_drift_status: detect_drift on the detector as it is now.
DriftQuery(r) ==
    /\ requests[r].pc = "pending"
    /\ ~DriftLoopBusy
    /\ drift_last.detects < MaxDetect
    /\ \E sig \in QuerySignals :
          LET call == detect_drift(drift_detector, sig)
          IN  /\ drift_detector' = call.D
              /\ drift_last' = DriftCall("detect_drift", call.raised, call.report,
                                         drift_last.adds,
                                         IF call.raised THEN drift_last.detects
                                         ELSE drift_last.detects + 1)
    /\ requests' = [requests EXCEPT ![r] = Idle]
    /\ IngestUnchanged

\* POST /drift/reset, reset_drift_detector.
ResetRequest(r) ==
    /\ requests[r].pc = "pending"
    /\ ~DriftLoopBusy
    /\ drift_detector' = detector_reset(drift_detector)
    /\ drift_last' = [drift_last EXCEPT !.since = drift_last.adds]
    /\ requests' = [requests EXCEPT ![r] = Idle]
    /\ IngestUnchanged

\* set_reference_data.
SetReferenceRequest ==
    /\ ~DriftLoopBusy
    /\ SetReference

IngestNext ==
    \/ \E r \in Requests : ArriveDrift(r)
    \/ \E r \in Requests : IngestAppend(r)
    \/ \E r \in Requests : IngestFeed(r)
    \/ \E r \in Requests : IngestFeedError(r)
    \/ \E r \in Requests : IngestTrim(r)
    \/ \E r \in Requests : DriftQuery(r)
    \/ \E r \in Requests : ResetRequest(r)
    \/ SetReferenceRequest

SpecIngest == InitDrift /\ [][IngestNext]_vars

(***************************************************************************)
(* The model validator (backend/engines/model_validator.py) on its own.    *)
(* What the checks measure on the model and the validation data (the       *)
(* metrics of scikit-learn, the largest feature importance, the smallest   *)
(* share of a predicted class, the share of predictions that survive the   *)
(* noise) is an input, in hundredths.                                      *)
(***************************************************************************)
MIN_ACCURACY == 70          \* thresholds["min_accuracy"] = 0.70
MIN_PRECISION == 65         \* thresholds["min_precision"] = 0.65
MIN_RECALL == 65            \* thresholds["min_recall"] = 0.65
MIN_F1 == 65                \* thresholds["min_f1"] = 0.65
MAX_CONCENTRATION == 80     \* thresholds["max_feature_importance_concentration"] = 0.8
MIN_CLASS_PROPORTION == 10  \* "min_class_proportion > 0.10"
MIN_CLASS_PROPORTION_BINARY == 5    \* "min_class_proportion > 0.05"
MIN_STABILITY == 90         \* "stability >= 0.90"

Measurements ==
    [accuracy : {69, 70}, precision : {64, 65}, recall : {64, 65}, f1 : {64, 65},
     max_importance : {79, 80},
     min_class_proportion : {5, 6, 10, 11}, n_classes : {2, 3},
     stability : {89, 90}]

_check_performance(m) ==
    /\ m.accuracy >= MIN_ACCURACY
    /\ m.precision >= MIN_PRECISION
    /\ m.recall >= MIN_RECALL
    /\ m.f1 >= MIN_F1

_check_explainability(m) == m.max_importance < MAX_CONCENTRATION

\* "a or b and c" is "a or (b and c)".
_check_fairness(m) ==
    \/ m.min_class_proportion > MIN_CLASS_PROPORTION
    \/ (m.n_classes = 2 /\ m.min_class_proportion > MIN_CLASS_PROPORTION_BINARY)

_check_stability(m) == m.stability >= MIN_STABILITY

\* The "passed" of the four checks of a validate_model call.
Checks(m) ==
    [performance |-> _check_performance(m), explainability |-> _check_explainability(m),
     fairness |-> _check_fairness(m), stability |-> _check_stability(m)]

ValidateModel ==
    /\ \E m \in Measurements :
          validation' = [measured |-> m, checks |-> Checks(m),
                         results |-> validate_model(Checks(m))]
    /\ UNCHANGED <<models, saved, blobs, audit, last, engVars, concVars, driftVars>>

ValidatorNext == ValidateModel

SpecValidator == Init /\ [][ValidatorNext]_vars

(***************************************************************************)
(* Claims about the registry, checked under Spec.                          *)
(***************************************************************************)

\* C1: whatever register_model, promote_model, set_champion, rollback_to_version
\* and delete_model calls were made, at most one metadata record has champion = true.
C1_AtMostOneChampion == Cardinality(Champions(models)) <= 1

\* C2: load_model(v) of a registered version whose artifact bytes no longer match
\* the recorded checksum returns no model; a model it returns is the one unpickled
\* from bytes whose checksum is the recorded one.
C2_LoadVerifiesChecksum ==
    (last.op = "load" /\ Has(models, last.version) /\ last.version \in DOMAIN blobs) =>
        /\ (Get(models, last.version).checksum # _calculate_checksum(blobs[last.version])
                => last.result = None)
        /\ (last.result # None =>
                /\ Get(models, last.version).checksum = _calculate_checksum(blobs[last.version])
                /\ last.result = Unpickle(blobs[last.version]))

C2_Witness ==
    /\ last.op = "load"
    /\ Has(models, last.version)
    /\ last.version \in DOMAIN blobs
    /\ Get(models, last.version).checksum # _calculate_checksum(blobs[last.version])
    /\ last.result = None

\* C11: right after register_model(model, m) with version v, the checksum
\* recomputed from the stored artifact is the one recorded for v, and load_model(v)
\* returns the registered model.
C11_RegisterLoadRoundTrip ==
    (last.op = "register") =>
        /\ Has(models, last.version)
        /\ last.version \in DOMAIN blobs
        /\ Get(models, last.version).checksum = _calculate_checksum(blobs[last.version])
        /\ load_model(Reg, last.version) = last.model

\* A second version has just been registered, with the model mB.
C11_Witness ==
    /\ last.op = "register"
    /\ last.model = "mB"
    /\ Len(models) = 2
    /\ load_model(Reg, last.version) = "mB"
    /\ \E i \in DOMAIN audit : audit[i].metadata.checksum = _calculate_checksum(Pickle("mB"))

\* C20: delete_model of a registered version that is not the champion succeeds,
\* removes its record, in memory and in the saved table, and its artifact file,
\* so that load_model finds no model for it, and leaves every other record and
\* artifact as it was.
C20_DeleteNonChampion ==
    [][(/\ last'.op = "delete"
        /\ Has(models, last'.version)
        /\ ~Get(models, last'.version).champion) =>
           /\ last'.ok
           /\ ~Has(models', last'.version)
           /\ ~Has(saved', last'.version)
           /\ last'.version \notin DOMAIN blobs'
           /\ load_model([models |-> models', saved |-> saved', blobs |-> blobs',
                          audit |-> audit'], last'.version) = None
           /\ models' = Del(models, last'.version)
           /\ \A v \in (DOMAIN blobs) \ {last'.version} :
                  v \in DOMAIN blobs' /\ blobs'[v] = blobs[v]]_vars

\* A delete that succeeded and left another model in the registry.
C20_Witness ==
    /\ last.op = "delete"
    /\ last.ok
    /\ ~Has(models, last.version)
    /\ last.version \notin DOMAIN blobs
    /\ models # <<>>

\* C8: register_model with a version that is already registered fails with a
\* duplicate-version error and leaves the existing metadata record, its flags and
\* its artifact blob unchanged.
C8_DuplicateVersionRejected ==
    [][(last'.op = "register" /\ Has(models, last'.version)) =>
            /\ last'.ok = FALSE
            /\ models' = models
            /\ blobs' = blobs]_vars

\* C9: delete_model(v) of a version flagged champion returns failure and leaves the
\* metadata table, the persisted table, the artifact files and the audit log as
\* they were (no line is appended).
C9_DeleteChampionFails ==
    [][(last'.op = "delete" /\ Has(models, last'.version)
            /\ Get(models, last'.version).champion) =>
            /\ last'.ok = FALSE
            /\ models' = models
            /\ saved' = saved
            /\ blobs' = blobs
            /\ audit' = <<>>]_vars

C9_Witness ==
    /\ last.op = "delete"
    /\ last.ok = FALSE
    /\ Has(models, last.version)
    /\ Get(models, last.version).champion
    /\ last.version \in DOMAIN blobs
    /\ Len(models) = 2

\* C10: after a successful set_champion(w), w is the only version flagged champion,
\* in memory and in the persisted table, and get_champion_model returns w's record;
\* so it is after set_champion(v) then set_champion(w).
C10_SetChampionExclusive ==
    (last.op = "set_champion" /\ last.ok) =>
        /\ Champions(models) = {last.version}
        /\ Champions(saved) = {last.version}
        /\ get_champion_model(models) = Get(models, last.version)

\* set_champion(w) right after a successful set_champion(v), v # w.
C10_Witness ==
    /\ last.op = "set_champion"
    /\ last.ok
    /\ last.follows_set_champion
    /\ last.before # {}
    /\ last.version \notin last.before
    /\ Champions(models) = {last.version}

\* C29: a register_model call leaves the set of versions flagged champion as it
\* was: no flag of a version registered before changes, and the version it
\* registers is not champion unless it was before, whatever flags the
\* caller's metadata carries.
C29_RegisterKeepsChampion ==
    [][(last'.op = "register") =>
          /\ Champions(models') = Champions(models)
          /\ \A i \in DOMAIN models :
                 /\ Has(models', models[i].version)
                 /\ Get(models', models[i].version).champion = models[i].champion
          /\ ~Has(models, last'.version) => ~Get(models', last'.version).champion]_vars

\* C33: rollback_to_version(v) leaves the metadata table, in memory and saved, and
\* the artifacts exactly as set_champion(v) would leave them, returns what
\* set_champion(v) would return, and writes the audit lines of set_champion(v)
\* followed by one more line, with the action "rollback"; for a version that is
\* not registered it fails and changes neither the table nor the audit log.
C33_RollbackIsSetChampion ==
    [][(last'.op = "rollback") =>
          LET s == set_champion(Reg, last'.version)
          IN  /\ last'.ok = s.ok
              /\ models' = s.R.models
              /\ saved' = s.R.saved
              /\ blobs' = s.R.blobs
              /\ s.ok =>
                    /\ Len(audit') = Len(s.R.audit) + 1
                    /\ SubSeq(audit', 1, Len(s.R.audit)) = s.R.audit
                    /\ audit'[Len(audit')].action = "rollback"
                    /\ audit'[Len(audit')].version = last'.version
              /\ ~Has(models, last'.version) =>
                    /\ ~last'.ok
                    /\ models' = models
                    /\ saved' = saved
                    /\ audit' = <<>>]_vars

\* A rollback to a registered version that was not the champion, while another
\* version was.
C33_Witness ==
    /\ last.op = "rollback"
    /\ last.ok
    /\ last.before # {}
    /\ last.version \notin last.before
    /\ Champions(models) = {last.version}
    /\ saved = models
    /\ Len(audit) = 2
    /\ audit[2].action = "rollback"

\* C34: a successful register_model, promote_model, set_champion,
\* rollback_to_version or delete_model call leaves the saved table equal to the
\* table in memory and appends exactly one audit line; a failed call appends none.
C34_OneAuditEntry ==
    [][(last'.op \in {"register", "promote", "set_champion", "rollback", "delete"}) =>
          /\ last'.ok => (saved' = models' /\ Len(audit') = 1)
          /\ ~last'.ok => audit' = <<>>]_vars

(***************************************************************************)
(* Claims about the orchestrator, checked under SpecRetrain.               *)
(***************************************************************************)

\* C3: a trigger_retraining call made while no version is flagged champion makes
\* the candidate champion and returns promoted = true with the reason "no previous
\* champion", without validation or comparison.
C3_ColdStartPromotes ==
    (last.op = "trigger_retraining" /\ ~outcome.started.had_champion) =>
        /\ outcome.call.status = "returned"
        /\ outcome.call.promoted
        /\ outcome.call.reason = "no_previous_champion"
        /\ Champions(models) = {outcome.version}

\* C4: with a champion in place and a candidate that passed validation, the
\* candidate is champion after the call exactly if its accuracy exceeds the
\* champion's by the margin or more; below the margin the call returns
\* promoted = false and the flagged champion is the one from before the call.
C4_PromoteIffImproved ==
    (/\ last.op = "trigger_retraining"
     /\ outcome.started.had_champion
     /\ outcome.call.reason \in {"compared", "TypeError"}) =>
        LET improvement ==
                outcome.started.candidate_accuracy - outcome.started.champion_accuracy
        IN  /\ (outcome.version \in Champions(models)) <=> (improvement >= IMPROVEMENT_MARGIN)
            /\ improvement < IMPROVEMENT_MARGIN =>
                  /\ outcome.call.status = "returned"
                  /\ outcome.call.promoted = FALSE
                  /\ Champions(models) = outcome.started.champions

\* C5: when the candidate fails validation, trigger_retraining returns
\* promoted = false with the validation detail, and the versions flagged champion
\* are those flagged before the call.
C5_ValidationFailureKeepsChampion ==
    (last.op = "trigger_retraining" /\ outcome.call.reason = "validation_failed") =>
        /\ outcome.call.status = "returned"
        /\ outcome.call.promoted = FALSE
        /\ outcome.call.validation.failures # <<>>
        /\ Champions(models) = outcome.started.champions

\* C12: every trigger_retraining call that returns, whatever its outcome, appends
\* one event for its run to the retrain-history list and one to the retrain-event
\* log.
C12_EveryOutcomeLogged ==
    [][(stamp' # stamp /\ last'.op = "trigger_retraining"
            /\ outcome'.call.status = "returned") =>
            /\ Len(retrain_history') = Len(retrain_history) + 1
            /\ retrain_history'[Len(retrain_history')].new_version = outcome'.version
            /\ Len(retrain_log') = Len(retrain_log) + 1
            /\ retrain_log'[Len(retrain_log')].new_version = outcome'.version]_vars

\* C24: in a trigger_retraining run that reached validation or comparison, the
\* version the candidate was compared with (current_metadata, old_version) is
\* not the candidate's own version.
C24_BaselineIsNotCandidate ==
    (/\ last.op = "trigger_retraining"
     /\ outcome.call.reason \in {"validation_failed", "compared", "TypeError"}) =>
        outcome.call.old_version # outcome.version

\* C25: after a trigger_retraining call that returned a rejection (validation
\* failed, or improvement below the margin), and before any later call,
\* get_champion_model does not answer with the rejected candidate.
C25_RejectedIsNotServed ==
    (/\ last.op = "trigger_retraining"
     /\ outcome.call.status = "returned"
     /\ outcome.call.reason \in {"validation_failed", "compared"}
     /\ ~outcome.call.promoted) =>
        get_champion_model(models).version # outcome.version

\* C28: the version a training registers (train_initial_model or
\* trigger_retraining) is not the version of a record or of an artifact the
\* registry had before the training.
C28_FreshVersion ==
    [][(stamp' # stamp) =>
          /\ ~Has(models, last'.version)
          /\ last'.version \notin DOMAIN blobs]_vars

(***************************************************************************)
(* Claims about concurrent callers, checked under SpecThreads.             *)
(***************************************************************************)

\* C7: whatever way concurrent set_champion, register_model, promote_model and
\* delete_model calls interleave, the metadata table never has more than one
\* champion flag set, in memory or as persisted.
C7_NoTwoChampionsSeen ==
    /\ Cardinality(Champions(models)) <= 1
    /\ Cardinality(Champions(saved)) <= 1

(***************************************************************************)
(* Claims about the retrain endpoints, checked under SpecApp.              *)
(***************************************************************************)

\* C6: at most one retrain is in flight: while one force_retrain or
\* auto_retrain_check handler is between its entry and its response, no other
\* one is; a second trigger waits for it.
C6_OneRetrainInFlight ==
    Cardinality({r \in Requests : InHandler(r)}) <= 1

\* A second trigger has arrived while a retrain is running, and waits.
C6_Witness ==
    \E r, q \in Requests : requests[r].pc = "running" /\ requests[q].pc = "pending"

\* C13: once startup is over, a predict request is answered with a prediction
\* and the version of the champion of the registry the handlers use.
C13_PredictAfterStartup ==
    (last.op = "predict") =>
        /\ last.ok
        /\ last.version \in Champions(models)

\* C26: when a retrain run through the retrain endpoints makes a version w
\* champion, the registry the prediction and model endpoints use has w as its
\* champion, and a predict request made then is served by w.
C26_PromotionReachesPredict ==
    [][(stamp' # stamp) =>
          \A w \in Champions(saved') \ Champions(saved) :
              /\ w \in Champions(models')
              /\ predict([models |-> models', saved |-> saved', blobs |-> blobs',
                          audit |-> <<>>]).model_version = w]_vars

\* C27: a set_champion call made through the application's registry leaves
\* every version of the persisted table in it, and when it succeeds the champion
\* flag is on the version it names and on no other.
C27_OtherInstancesKeepRecords ==
    [][(requests' = requests /\ sec' = sec /\ last'.op = "set_champion") =>
           \A u \in Keys(saved) :
               /\ Has(saved', u)
               /\ last'.ok => (Get(saved', u).champion = (u = last'.version))]_vars

(***************************************************************************)
(* Claims about ADWIN, checked under SpecAdwin.                            *)
(***************************************************************************)

\* C18: while every observation fed since construction has had the same value,
\* add_element has never reported drift, drift_count is 0 and the window holds
\* every observation fed since the last reset (nothing was cut).
C18_NoDriftOnConstantStream ==
    (stream.changes = 0) =>
        /\ adwin.drift_count = 0
        /\ ~adwin.drift_detected
        /\ ~stream.returned
        /\ ~stream.truncated
        /\ adwin.width = stream.seen
        /\ Len(adwin.window) = stream.seen

\* A constant stream of ones as long as the model goes.
C18_Witness ==
    /\ stream.changes = 0
    /\ stream.value = 1
    /\ stream.seen = MaxObs
    /\ adwin.total = MaxObs

\* C19: with delta = 0.01, 50 observations 0 then observations 1: drift has been
\* reported once 5 observations followed the change (so within the 50 of the
\* claim), and the window is shorter than the number of observations seen.
C19_DriftAfterChange ==
    (/\ adwin.delta = 10
     /\ stream.first = 0
     /\ stream.changes = 1
     /\ stream.change_at = 50
     /\ stream.seen >= 55) =>
        /\ adwin.drift_count >= 1
        /\ stream.truncated
        /\ adwin.width < stream.seen

\* The fifth 1 after fifty 0: add_element returns True and cuts 48 observations.
C19_Witness ==
    /\ adwin.delta = 10
    /\ stream.first = 0
    /\ stream.change_at = 50
    /\ stream.seen = 55
    /\ stream.returned
    /\ adwin.drift_detected
    /\ adwin.width = 7

\* C31: an add_element call that reports drift leaves the window it had, the
\* new observation appended, without the elements before the smallest split
\* point that qualifies, and drops no more, whatever other split points
\* qualify; a call that reports none leaves the whole window.
C31_FirstCutOnly ==
    [][(stream'.seen = stream.seen + 1) =>
          LET w == Append(adwin.window, stream'.value)
              Q == Qualifying(w, adwin.delta)
          IN  /\ stream'.returned <=> Q # {}
              /\ Q = {} => adwin'.window = w
              /\ Q # {} =>
                    LET i == CHOOSE c \in Q : \A d \in Q : c <= d
                    IN  /\ adwin'.window = SubSeq(w, i + 1, Len(w))
                        /\ adwin'.width = Len(w) - i]_vars

\* Fifty 0 and one 10: the call cut at the first split point that qualifies,
\* 31, although later ones qualified, and a split of the 20 observations it
\* kept qualifies as well.
C31_Witness ==
    /\ stream.returned
    /\ adwin.delta = 10
    /\ adwin.drift_count = 1
    /\ stream.first = 0
    /\ stream.value = 10
    /\ stream.change_at = 50
    /\ stream.seen = 51
    /\ adwin.width = 20
    /\ Qualifying(adwin.window, adwin.delta) # {}
    /\ Cardinality(Qualifying([k \in 1 .. 51 |-> IF k <= 50 THEN 0 ELSE 10], adwin.delta)) > 1

\* C32: add_element reports no drift while the window, the new observation
\* included, holds fewer than 10 observations, and the window a reported drift
\* leaves holds 5 observations or more.
C32_SubwindowFloor ==
    [][(stream'.seen = stream.seen + 1 /\ stream'.returned) =>
          /\ Len(adwin.window) + 1 >= 10
          /\ Len(adwin'.window) >= 5
          /\ adwin'.width >= 5]_vars

\* Five 0 and five 10: drift at the tenth observation, five are kept.
C32_Witness ==
    /\ stream.returned
    /\ stream.seen = 10
    /\ stream.change_at = 5
    /\ adwin.width = 5

C14_WindowIsBoundedFifo ==
    LET w == drift_detector.current_features
        n == drift_last.adds - drift_last.since
    IN  /\ Len(w) = Min(n, window_size)
        /\ \A k \in DOMAIN w : w[k].id = drift_last.adds - Len(w) + k

\* C15: detect_drift with no reference set returns score 0 and severity "none",
\* whatever the sample count; with a reference and fewer than the minimum of
\* samples it returns score 0 and severity "insufficient_data"; neither raises;
\* and a computed report means the window held the minimum of samples.
C15_DetectFailsSoftly ==
    (drift_last.op = "detect_drift") =>
        /\ ~drift_last.had_reference =>
              /\ ~drift_last.raised
              /\ drift_last.report.drift_score.num = 0
              /\ drift_last.report.severity = "none"
              /\ drift_last.report.details = "error"
        /\ (drift_last.had_reference /\ drift_last.samples < MIN_SAMPLES) =>
              /\ ~drift_last.raised
              /\ drift_last.report.drift_score.num = 0
              /\ drift_last.report.severity = "insufficient_data"
        /\ (~drift_last.raised /\ drift_last.report.details = "feature_drift") =>
              drift_last.samples >= MIN_SAMPLES

\* No reference and too few samples: the answer is the no-reference one.
C15_Witness ==
    /\ drift_last.op = "detect_drift"
    /\ ~drift_last.had_reference
    /\ drift_last.samples < MIN_SAMPLES
    /\ drift_last.samples > 0
    /\ drift_last.report.severity = "none"

\* C16: the drift_score of every report detect_drift returned is between 0 and 100.
C16_ScoreInRange ==
    /\ (drift_last.op = "detect_drift" /\ ~drift_last.raised) =>
          /\ drift_last.report.drift_score.den > 0
          /\ drift_last.report.drift_score.num >= 0
          /\ drift_last.report.drift_score.num <= 100 * drift_last.report.drift_score.den
    /\ \A k \in DOMAIN drift_detector.drift_history :
          /\ drift_detector.drift_history[k].drift_score.den > 0
          /\ drift_detector.drift_history[k].drift_score.num >= 0
          /\ drift_detector.drift_history[k].drift_score.num
                <= 100 * drift_detector.drift_history[k].drift_score.den

\* A report whose only signal, a feature with PSI 4.0, scores 550 points.
C16_Witness ==
    /\ drift_last.op = "detect_drift"
    /\ ~drift_last.raised
    /\ drift_last.report.affected_features # <<>>
    /\ drift_last.report.drift_score = [num |-> 100, den |-> 1]
    /\ drift_last.report.severity = "high"

\* C17: the drift history holds one report for each detect_drift call that
\* returned, the last of them the report of the last call.
C17_EveryCallAppends ==
    /\ Len(drift_detector.drift_history) = drift_last.detects
    /\ (drift_last.op = "detect_drift" /\ ~drift_last.raised) =>
          /\ drift_detector.drift_history # <<>>
          /\ drift_detector.drift_history[Len(drift_detector.drift_history)]
                = drift_last.report

\* C22: the drift type of a computed report is concept_drift when the label PSI
\* exceeds 0.2; otherwise prediction_drift when the prediction PSI exceeds 0.2;
\* otherwise data_drift when a feature is affected; otherwise none.
C22_DriftTypePriority ==
    (/\ drift_last.op = "detect_drift"
     /\ ~drift_last.raised
     /\ drift_last.report.details = "feature_drift") =>
        drift_last.report.drift_type =
            IF \E c \in drift_last.report.concept_drift : c.psi > 5
            THEN "concept_drift"
            ELSE IF \E p \in drift_last.report.prediction_drift : p.psi > 5
            THEN "prediction_drift"
            ELSE IF drift_last.report.affected_features # <<>> THEN "data_drift"
            ELSE "none"

\* C23: the overall score of a computed report is the mean, clamped to 0..100,
\* of the score of every feature and of the prediction and the concept score
\* when they were computed.
C23_ScoreIsMeanOfAllSignals ==
    (/\ drift_last.op = "detect_drift"
     /\ ~drift_last.raised
     /\ drift_last.report.details = "feature_drift") =>
        LET rep == drift_last.report
            pred == IF rep.prediction_drift = {} THEN <<>>
                    ELSE <<(CHOOSE p \in rep.prediction_drift : TRUE).drift_score>>
            conc == IF rep.concept_drift = {} THEN <<>>
                    ELSE <<(CHOOSE c \in rep.concept_drift : TRUE).drift_score>>
            all == rep.feature_drift \o pred \o conc
            sum == SumScores(all, Len(all))
            mean == IF sum > 100 * Len(all) THEN [num |-> 100, den |-> 1]
                    ELSE [num |-> sum, den |-> Len(all)]
        IN  rep.drift_score.num * mean.den = mean.num * rep.drift_score.den

\* C30: the stored labels are those of the samples in the feature window that
\* came with a label, in the same order, and the stored predictions those of
\* the samples in the window that came with a prediction.
C30_LabelsFollowWindow ==
    LET w == drift_detector.current_features
        labelled == SelectSeq(w, LAMBDA x : x.label # {})
        predicted == SelectSeq(w, LAMBDA x : x.prediction # {})
    IN  /\ drift_detector.current_labels
              = [k \in DOMAIN labelled |-> [id |-> labelled[k].id, label |-> labelled[k].label]]
        /\ drift_detector.current_predictions
              = [k \in DOMAIN predicted |->
                    [id |-> predicted[k].id, prediction |-> predicted[k].prediction]]

(***************************************************************************)
(* Claims about the model validator, checked under SpecValidator.          *)
(***************************************************************************)

\* C21: validate_model answers passed = true exactly when the performance, the
\* explainability, the fairness and the stability check all passed, and its
\* failures list names each failed check once and no other.
C21_PassedIffAllChecksPass ==
    (validation # NoValidation) =>
        /\ validation.results.passed <=>
              /\ _check_performance(validation.measured)
              /\ _check_explainability(validation.measured)
              /\ _check_fairness(validation.measured)
              /\ _check_stability(validation.measured)
        /\ \A c \in {"performance", "explainability", "fairness", "stability"} :
              Cardinality({i \in DOMAIN validation.results.failures :
                              validation.results.failures[i] = c})
                 = IF validation.checks[c] THEN 0 ELSE 1
        /\ Len(validation.results.failures)
              = Cardinality({c \in {"performance", "explainability", "fairness", "stability"} :
                                ~validation.checks[c]})

\* A validation where the fairness and the stability check failed, and only they.
C21_Witness ==
    /\ validation # NoValidation
    /\ ~validation.results.passed
    /\ validation.results.failures = <<"fairness", "stability">>
    /\ _check_performance(validation.measured)
    /\ _check_explainability(validation.measured)

\* C35: get_drift_history(limit) returns, for every limit >= 0, the most recent
\* min(limit, n) of the n entries of the history, oldest first, and never more
\* than limit entries: none when limit is 0.
C35_HistoryLimit ==
    (drift_last.op = "get_drift_history" /\ drift_last.limit >= 0) =>
        LET n == Len(drift_detector.drift_history)
            k == Min(drift_last.limit, n)
        IN  /\ Len(drift_last.history) <= drift_last.limit
            /\ drift_last.history = SubSeq(drift_detector.drift_history, n - k + 1, n)

\* C36: an add_sample call whose feature vector does not have n_features values
\* leaves the current window and every detector as they were: after an add_sample
\* call either the window ends with the call's sample, of n_features values, and
\* the call returned, or neither the window nor a detector changed.
C36_WrongLengthRejected ==
    [][(drift_last'.adds = drift_last.adds + 1) =>
          LET W == drift_detector'.current_features
          IN  \/ /\ ~drift_last'.raised
                 /\ W # <<>>
                 /\ W[Len(W)].id = drift_last'.adds
                 /\ Len(W[Len(W)].features) = drift_detector.n_features
              \/ /\ drift_detector'.current_features = drift_detector.current_features
                 /\ drift_detector'.adwin_detectors = drift_detector.adwin_detectors]_vars

(***************************************************************************)
(* Claims about the drift endpoints, checked under SpecIngest.             *)
(***************************************************************************)

====
